---- MODULE Spec2Model ----
(***************************************************************************)
(* Draft review and publish workflow of the moderation bot                 *)
(* (src/moderation_bot.py) over the SQLite store (src/database.py).        *)
(*                                                                         *)
(* Scheduling: the bot is built with Application.builder().token().build() *)
(* (moderation_bot.py:2150), so inbound updates are dispatched one at a    *)
(* time: a handler runs to completion before the next update is taken.     *)
(* The periodic delivery tick is its own task (auto_send_loop, created at  *)
(* moderation_bot.py:2177) and is suspended at each send to a moderator,   *)
(* where handlers and the other tick may run.  A tick is therefore         *)
(* modelled step by step, a handler as one action.                         *)
(***************************************************************************)
EXTENDS Integers, Sequences, FiniteSets, TLC

\* ---------------------------------------------------------------- bounds
NumModerators == 2      \* longest config.MODERATOR_IDS
MaxDrafts == 2          \* most rows of source_posts, hence of draft_posts
MaxNotify == 2          \* cap of the per (draft, moderator) notification counter
MaxSends == 2           \* cap of the count of messages delivered to target channels
MaxImages == 1          \* candidate images one search returns at most
MaxVkPost == 3          \* largest id of a post on the VK wall
MaxVkSends == 2         \* cap of the count of Telegram messages per VK post

\* ------------------------------------------------------- program constants
MAX_DRAFTS_PER_CHECK == 1

NULL == "NULL"                  \* None / SQL NULL in a text field
NoId == 0                       \* None / SQL NULL in an integer field
NoRow == [status |-> "NULL"]    \* get_draft_post found no row
NoState == [draft_id |-> NoId]  \* user_id is not a key of publishing_states
NoRun == [draft_id |-> NoId]    \* the step made no _publish_draft call

\* The lists config.MODERATOR_IDS may hold
ModeratorConfigs == {[i \in 1..n |-> i] : n \in 1..NumModerators}
DraftIds == 1..MaxDrafts

\* The lists config.TARGET_CHANNEL_IDS may hold; the code distinguishes
\* len == 1 from len > 1.
ChannelConfigs == {<<"A">>, <<"A", "B">>, <<"A", "B", "C">>}
AllChannels == {"A", "B", "C"}

\* ------------------------------------------------------------ text helpers
\* Texts are sequences of one-character strings.
WordChars == {"T", "N", "b", "x", "y"}
WhiteChars == {" ", "\n"}

RECURSIVE LStrip(_)
LStrip(s) == IF s # <<>> /\ Head(s) \in WhiteChars THEN LStrip(Tail(s)) ELSE s

RECURSIVE RStrip(_)
RStrip(s) == IF s # <<>> /\ s[Len(s)] \in WhiteChars
             THEN RStrip(SubSeq(s, 1, Len(s) - 1)) ELSE s

\* str.strip()
Strip(s) == RStrip(LStrip(s))

\* length of the maximal run of \w characters at the head of s
RECURSIVE WordRun(_)
WordRun(s) == IF s # <<>> /\ Head(s) \in WordChars THEN 1 + WordRun(Tail(s)) ELSE 0

\* re.findall(r'#\w+', s): the matches, left to right
RECURSIVE FindHashtags(_)
FindHashtags(s) ==
    IF s = <<>> THEN <<>>
    ELSE IF Head(s) = "#" /\ WordRun(Tail(s)) > 0
         THEN <<SubSeq(s, 1, 1 + WordRun(Tail(s)))>>
              \o FindHashtags(SubSeq(s, 2 + WordRun(Tail(s)), Len(s)))
         ELSE FindHashtags(Tail(s))

\* re.sub(r'#\w+', "", s)
RECURSIVE RemoveHashtags(_)
RemoveHashtags(s) ==
    IF s = <<>> THEN <<>>
    ELSE IF Head(s) = "#" /\ WordRun(Tail(s)) > 0
         THEN RemoveHashtags(SubSeq(s, 2 + WordRun(Tail(s)), Len(s)))
         ELSE <<Head(s)>> \o RemoveHashtags(Tail(s))

\* sep.join(parts)
RECURSIVE Join(_, _)
Join(parts, sep) ==
    IF parts = <<>> THEN <<>>
    ELSE IF Len(parts) = 1 THEN parts[1]
    ELSE parts[1] \o sep \o Join(Tail(parts), sep)

\* s.split("\n")
RECURSIVE SplitLines(_)
SplitLines(s) ==
    IF \A i \in 1..Len(s) : s[i] # "\n" THEN <<s>>
    ELSE LET k == CHOOSE i \in 1..Len(s) : s[i] = "\n" /\ \A j \in 1..(i-1) : s[j] # "\n"
         IN  <<SubSeq(s, 1, k - 1)>> \o SplitLines(SubSeq(s, k + 1, Len(s)))

RECURSIVE StripNonEmpty(_)
StripNonEmpty(lines) ==
    IF lines = <<>> THEN <<>>
    ELSE IF Strip(Head(lines)) # <<>>
         THEN <<Strip(Head(lines))>> \o StripNonEmpty(Tail(lines))
         ELSE StripNonEmpty(Tail(lines))

\* ModerationBot._parse_hashtags_from_text: <<text without hashtags, hashtags string>>
parse_hashtags_from_text(text) ==
    <<Strip(RemoveHashtags(text)), Join(FindHashtags(text), <<" ">>)>>

\* A variant of _parse_title_and_body that keeps blank lines: the first line
\* of the split is the title and all the others are the body
parse_title_and_body_KeepBlank(text) ==
    LET split == SplitLines(text)
        lines == [i \in 1..Len(split) |-> Strip(split[i])]
    IN  <<lines[1], IF Len(lines) > 1 THEN Join(Tail(lines), <<"\n">>) ELSE <<>>>>

\* ModerationBot._parse_title_and_body: <<title, body>>
parse_title_and_body(text) ==
    LET lines == StripNonEmpty(SplitLines(text))
    IN  IF lines = <<>> THEN << <<>>, <<>> >>
        ELSE <<lines[1], IF Len(lines) > 1 THEN Join(Tail(lines), <<"\n">>) ELSE <<>>>>

\* ------------------------------------------------------------------ state
VARIABLES
    MODERATOR_IDS,        \* config.MODERATOR_IDS, fixed at start-up
    TARGET_CHANNEL_IDS,   \* config.TARGET_CHANNEL_IDS, fixed at start-up
    source_posts,         \* table source_posts: id -> status ("NULL" = no row)
    draft_posts,          \* table draft_posts joined with source_posts: id -> row or NULL
    editing_states,       \* ModerationBot.editing_states: user_id -> draft_id or NULL
    publishing_states,    \* ModerationBot.publishing_states: user_id -> (draft_id, channels) or NULL
    sent_drafts,          \* ModerationBot.sent_drafts: draft_id -> set of user_id ({} = no key)
    ticks,                \* position of each running _check_and_send_new_drafts call
    notified,             \* review notifications delivered: draft_id -> user_id -> count
    channel_msgs,         \* messages delivered to the target channels: channel -> count
    lastRun,              \* the _publish_draft call made by the latest step (its arguments and
                          \* its locals at return), NULL if the step made none
    replies,              \* the text messages the latest step sent to the moderator whose
                          \* update it handled, in order, each by its class
    source_keys,          \* table source_posts, the columns add_source_post writes:
                          \* id -> [channel_id, message_id, text_original] or NULL
    insert_result,        \* the latest add_source_post call: its arguments and the id
                          \* it returned (0 = None), NULL if there was no call yet
    vk_state,             \* vk_to_telegram.py STATE_FILE: [last_post_id, initialized]
    vk_sent,              \* VK post id -> messages delivered to Telegram for it
    vk_run,               \* the latest process_posts run: the state it loaded and
                          \* the post ids it sent
    observe               \* whether replies is recorded: fixed by Init, TRUE in the
                          \* specifications whose properties read replies

vars == <<MODERATOR_IDS, TARGET_CHANNEL_IDS, source_posts, draft_posts, editing_states,
          publishing_states, sent_drafts, ticks, notified, channel_msgs, lastRun, replies,
          source_keys, insert_result, vk_state, vk_sent, vk_run, observe>>

\* the VK forwarder (vk_to_telegram.py), a process of its own
forwarder == <<vk_state, vk_sent, vk_run>>

\* what the moderation bot never writes: the rows of the listener and the
\* forwarder's state
ingest == <<source_keys, insert_result, forwarder>>

config == <<MODERATOR_IDS, TARGET_CHANNEL_IDS, observe>>
Moderators == {MODERATOR_IDS[i] : i \in 1..Len(MODERATOR_IDS)}

\* What the generation worker stores for a new draft (gpt_worker.py:366-395):
\* body is the HTML text, title the text of its first <b> element.
GenTitle == <<"T">>
GenBody == <<"<", "b", ">", "T", "<", "/", "b", ">">>
GenHashtags == <<"#", "x">>

StyledUrl == "https://render/1"     \* a URL returned by _render_image or _generate_simpsons_image
SourcePhoto == "file_id_source"     \* file_id of the source post's photo
CustomPhoto == "file_id_custom"     \* file_id of a photo sent by a moderator
ImageQuery == "tennis"              \* an image_query produced by the generation worker

\* Database.add_draft_post + the source_posts row it joins with
NewDraft(source_post_id, image_query, pexels, photo) ==
    [source_post_id |-> source_post_id,
     status |-> "pending_moderation",
     title |-> GenTitle, body |-> GenBody, hashtags |-> GenHashtags,
     image_query |-> image_query,
     pexels_images |-> pexels,
     final_image_url |-> NULL,
     photo_file_id |-> photo,
     target_chat_id |-> NULL, target_message_id |-> NoId,
     old |-> FALSE]

NoKey == [channel_id |-> NULL]
VkPostIds == 1..MaxVkPost
\* what load_state returns when STATE_FILE is missing (vk_to_telegram.py:104)
NoVkState == [last_post_id |-> 0, initialized |-> FALSE]
NoVkRun == [before |-> NoVkState, posts |-> {}, sent |-> {}]
NoInsert == [channel_id |-> NULL]

\* a row as add_source_post inserts it
SourceKey(channel_id, message_id, text_original) ==
    [channel_id |-> channel_id, message_id |-> message_id,
     text_original |-> text_original]

TickTasks == {"periodic", "ondemand"}
IdleTick == [pc |-> "idle", queue |-> <<>>, idx |-> 0, sent_to |-> {}]

\* The state after construction (ModerationBot.__init__) over a store holding
\* `posts` ingested source posts, none of them processed yet.
InitWith(moderator_ids, channel_configs, posts) ==
    /\ MODERATOR_IDS = moderator_ids
    /\ TARGET_CHANNEL_IDS \in channel_configs
    /\ source_posts = [p \in DraftIds |-> IF p <= posts THEN "new" ELSE NULL]
    /\ source_keys = [p \in DraftIds |-> IF p <= posts THEN SourceKey("S", p, "t")
                                          ELSE NoKey]
    /\ insert_result = NoInsert
    /\ vk_state = NoVkState
    /\ vk_sent = [p \in VkPostIds |-> 0]
    /\ vk_run = NoVkRun
    /\ draft_posts = [d \in DraftIds |-> NoRow]
    /\ editing_states = [m \in Moderators |-> NoId]
    /\ publishing_states = [m \in Moderators |-> NoState]
    /\ sent_drafts = [d \in DraftIds |-> {}]
    /\ ticks = [t \in TickTasks |-> IdleTick]
    /\ notified = [d \in DraftIds |-> [m \in Moderators |-> 0]]
    /\ channel_msgs = [c \in AllChannels |-> 0]
    /\ lastRun = NoRun
    /\ replies = <<>>

Init == InitWith([i \in 1..NumModerators |-> i], ChannelConfigs, MaxDrafts) /\ observe = TRUE

\* Database.get_draft_post: the row or NULL
get_draft_post(d) == IF d \in DraftIds THEN draft_posts[d] ELSE NoRow

\* Database.get_pending_draft_posts: ids of the pending rows, created_at ascending
\* (rows are inserted in id order)
RECURSIVE PendingFrom(_)
PendingFrom(d) ==
    IF d > MaxDrafts THEN <<>>
    ELSE IF draft_posts[d] # NoRow /\ draft_posts[d].status = "pending_moderation"
         THEN <<d>> \o PendingFrom(d + 1)
         ELSE PendingFrom(d + 1)

\* A variant of get_pending_draft_posts with ORDER BY d.created_at DESC
get_pending_draft_posts_NewestFirst ==
    LET rows == PendingFrom(1)
    IN  [i \in 1..Len(rows) |-> rows[Len(rows) + 1 - i]]

get_pending_draft_posts == PendingFrom(1)

Take(s, n) == SubSeq(s, 1, IF Len(s) < n THEN Len(s) ELSE n)

\* ---------------------------------------------------------------- listener
\* ids of the rows of source_posts with this (channel_id, message_id); the
\* UNIQUE(channel_id, message_id) constraint of _init_database reads it
RowsWithKey(channel_id, message_id) ==
    {id \in DraftIds : /\ source_keys[id] # NoKey
                       /\ source_keys[id].channel_id = channel_id
                       /\ source_keys[id].message_id = message_id}

\* A variant of add_source_post over a table without the UNIQUE constraint
add_source_post_NoUnique(channel_id, message_id, text_original) ==
    LET post_id == 1 + Cardinality({id \in DraftIds : source_keys[id] # NoKey})
    IN  /\ post_id \in DraftIds
        /\ source_keys' = [source_keys EXCEPT
                              ![post_id] = SourceKey(channel_id, message_id, text_original)]
        /\ source_posts' = [source_posts EXCEPT ![post_id] = "new"]
        /\ insert_result' = [channel_id |-> channel_id, message_id |-> message_id,
                             text_original |-> text_original, returned |-> post_id]

\* Database.add_source_post: the INSERT raises IntegrityError when a row has
\* the pair already, and the call returns None; otherwise it returns the id
\* of the new row (AUTOINCREMENT; no row is ever deleted)
add_source_post(channel_id, message_id, text_original) ==
    LET post_id == 1 + Cardinality({id \in DraftIds : source_keys[id] # NoKey})
    IN  IF RowsWithKey(channel_id, message_id) # {}
        THEN /\ insert_result' = [channel_id |-> channel_id, message_id |-> message_id,
                                  text_original |-> text_original, returned |-> NoId]
             /\ UNCHANGED <<source_keys, source_posts>>
        ELSE /\ post_id \in DraftIds
             /\ source_keys' = [source_keys EXCEPT
                                   ![post_id] = SourceKey(channel_id, message_id, text_original)]
             /\ source_posts' = [source_posts EXCEPT ![post_id] = "new"]
             /\ insert_result' = [channel_id |-> channel_id, message_id |-> message_id,
                                  text_original |-> text_original, returned |-> post_id]

SourceChannels == {"S", "S2"}
SourceTexts == {"t", "u"}

\* TelegramListener: a message of a source channel is stored
AddSourcePost ==
    \E channel_id \in SourceChannels, message_id \in DraftIds, text \in SourceTexts :
        /\ add_source_post(channel_id, message_id, text)
        /\ lastRun' = NoRun /\ replies' = <<>>
        /\ UNCHANGED <<config, forwarder, draft_posts, editing_states, publishing_states,
                       sent_drafts, ticks, notified, channel_msgs>>

\* ------------------------------------------------- generation collaborator
\* GPTWorker._process_post on a new source post whose generation succeeds:
\* insert the draft (final_image_url is never set here), mark the post processed
AddDraft ==
    \E p \in DraftIds, d \in DraftIds, q \in {NULL, ImageQuery}, pexels \in 0..MaxImages,
       photo \in {NULL, SourcePhoto} :
        /\ source_posts[p] = "new"
        /\ draft_posts[d] = NoRow
        /\ \A e \in 1..(d-1) : draft_posts[e] # NoRow
        /\ q = NULL => pexels = 0
        /\ draft_posts' = [draft_posts EXCEPT ![d] = NewDraft(p, q, pexels, photo)]
        /\ source_posts' = [source_posts EXCEPT ![p] = "processed"]
        /\ lastRun' = NoRun /\ replies' = <<>>
        /\ UNCHANGED <<config, ingest, editing_states, publishing_states,
                       sent_drafts, ticks, notified, channel_msgs>>

\* Time passes: a draft becomes older than 168 hours (moderation_bot.py:309-312)
AgeDraft ==
    \E d \in DraftIds :
        /\ draft_posts[d] # NoRow
        /\ ~draft_posts[d].old
        /\ draft_posts' = [draft_posts EXCEPT ![d].old = TRUE]
        /\ lastRun' = NoRun /\ replies' = <<>>
        /\ UNCHANGED <<config, ingest, source_posts, editing_states, publishing_states,
                       sent_drafts, ticks, notified, channel_msgs>>

\* ------------------------------------------------ Draft Delivery Scheduler
\* The loop of _check_and_send_new_drafts over pending_drafts: drop the drafts
\* it skips (already sent to all moderators, or too old); the head of the
\* result is the draft handed to _send_draft_to_moderators.
RECURSIVE SkipDrafts(_, _)
SkipDrafts(queue, sent) ==
    IF queue = <<>> THEN <<>>
    ELSE IF sent[Head(queue)] = Moderators THEN SkipDrafts(Tail(queue), sent)
    ELSE IF draft_posts[Head(queue)].old THEN SkipDrafts(Tail(queue), sent)
    ELSE queue

\* _check_and_send_new_drafts up to its first await
StartTick(t) ==
    LET queue == SkipDrafts(Take(get_pending_draft_posts, MAX_DRAFTS_PER_CHECK), sent_drafts)
    IN  ticks' = [ticks EXCEPT ![t] =
                    IF queue = <<>> THEN IdleTick
                    ELSE [pc |-> "sending", queue |-> queue, idx |-> 1, sent_to |-> {}]]

\* auto_send_loop: the periodic tick begins
TickBegin ==
    /\ ticks["periodic"].pc = "idle"
    /\ StartTick("periodic")
    /\ lastRun' = NoRun /\ replies' = <<>>
    /\ UNCHANGED <<config, ingest, source_posts, draft_posts, editing_states, publishing_states,
                   sent_drafts, notified, channel_msgs>>

\* A variant of TickSendStep whose try block encloses the loop over the
\* moderators: a send that raises ends the delivery of the draft
TickSendStep_StopAtFailure(t, ok) ==
    LET tk == ticks[t]
        d == Head(tk.queue)
        m == MODERATOR_IDS[tk.idx]
        sent_to == IF ok THEN tk.sent_to \cup {m} ELSE tk.sent_to
        last == tk.idx = Len(MODERATOR_IDS) \/ ~ok
        sent == IF last /\ sent_to # {} THEN [sent_drafts EXCEPT ![d] = sent_to]
                ELSE sent_drafts
        rest == SkipDrafts(Tail(tk.queue), sent)
    IN  /\ tk.pc = "sending"
        /\ ok => notified[d][m] < MaxNotify
        /\ notified' = IF ok THEN [notified EXCEPT ![d][m] = @ + 1] ELSE notified
        /\ sent_drafts' = sent
        /\ ticks' = [ticks EXCEPT ![t] =
                        IF ~last THEN [tk EXCEPT !.idx = @ + 1, !.sent_to = sent_to]
                        ELSE IF rest = <<>> THEN IdleTick
                        ELSE [pc |-> "sending", queue |-> rest, idx |-> 1, sent_to |-> {}]]
        /\ lastRun' = NoRun /\ replies' = <<>>
        /\ UNCHANGED <<config, ingest, source_posts, draft_posts, editing_states, publishing_states,
                       channel_msgs>>

\* _send_draft_to_moderators: the send to the next moderator of MODERATOR_IDS
\* returns (ok) or raises (not ok); after the last one sent_drafts is written
\* and the loop of _check_and_send_new_drafts goes on.
TickSendStep(t, ok) ==
    LET tk == ticks[t]
        d == Head(tk.queue)
        m == MODERATOR_IDS[tk.idx]
        sent_to == IF ok THEN tk.sent_to \cup {m} ELSE tk.sent_to
        last == tk.idx = Len(MODERATOR_IDS)
        sent == IF last /\ sent_to # {} THEN [sent_drafts EXCEPT ![d] = sent_to]
                ELSE sent_drafts
        rest == SkipDrafts(Tail(tk.queue), sent)
    IN  /\ tk.pc = "sending"
        /\ ok => notified[d][m] < MaxNotify
        /\ notified' = IF ok THEN [notified EXCEPT ![d][m] = @ + 1] ELSE notified
        /\ sent_drafts' = sent
        /\ ticks' = [ticks EXCEPT ![t] =
                        IF ~last THEN [tk EXCEPT !.idx = @ + 1, !.sent_to = sent_to]
                        ELSE IF rest = <<>> THEN IdleTick
                        ELSE [pc |-> "sending", queue |-> rest, idx |-> 1, sent_to |-> {}]]
        /\ lastRun' = NoRun /\ replies' = <<>>
        /\ UNCHANGED <<config, ingest, source_posts, draft_posts, editing_states, publishing_states,
                       channel_msgs>>

TickSendOk == \E t \in TickTasks : TickSendStep(t, TRUE)
TickSendFail == \E t \in TickTasks : TickSendStep(t, FALSE)

\* A variant of auto_send_loop without the try block around the tick: the
\* exception ends the task of the loop
AfterTickError_LoopEnds == [pc |-> "stopped", queue |-> <<>>, idx |-> 0, sent_to |-> {}]

\* auto_send_loop after a tick that raised (moderation_bot.py:2141-2142): the
\* exception is logged, the loop sleeps and goes on to its next tick
AfterTickError == IdleTick

\* auto_send_loop: _check_and_send_new_drafts raises before its first send
\* (the read of the pending drafts fails, moderation_bot.py:273)
TickRaises ==
    /\ ticks["periodic"].pc = "idle"
    /\ ticks' = [ticks EXCEPT !["periodic"] = AfterTickError]
    /\ lastRun' = NoRun /\ replies' = <<>>
    /\ UNCHANGED <<config, ingest, source_posts, draft_posts, editing_states, publishing_states,
                   sent_drafts, notified, channel_msgs>>

\* No handler is running: updates are dispatched one at a time, and the only
\* handler that spans several steps is the one running an on-demand tick.
HandlerFree == ticks["ondemand"].pc = "idle"

\* the step sends msgs to the moderator whose update it handles
Reply(msgs) == replies' = IF observe THEN msgs ELSE <<>>

\* start_command of a moderator: run _check_and_send_new_drafts
StartCommand ==
    \E m \in Moderators :
        /\ HandlerFree
        /\ StartTick("ondemand")
        /\ lastRun' = NoRun /\ Reply(<<"info">>)
        /\ UNCHANGED <<config, ingest, source_posts, draft_posts, editing_states, publishing_states,
                       sent_drafts, notified, channel_msgs>>

\* ------------------------------------------------------ Publish Orchestrator
\* Outcome of the sends to one channel inside _publish_draft:
\*   "ok"        the first send returned a message
\*   "fallback"  the photo send raised, the text-only send returned a message
\*               (moderation_bot.py:2013-2021, 2054-2062)
\*   "fail"      the send raised out of the try block (moderation_bot.py:2096)
Outcomes == {"ok", "fallback", "fail"}

\* A variant of mark_draft_published that writes the status and leaves the
\* target columns alone
mark_draft_published_StatusOnly(row, target_chat_id, target_message_id) ==
    IF row = NoRow THEN NoRow ELSE [row EXCEPT !.status = "published"]

\* Database.mark_draft_published: UPDATE ... WHERE id = ?
mark_draft_published(row, target_chat_id, target_message_id) ==
    IF row = NoRow THEN NoRow
    ELSE [row EXCEPT !.status = "published",
                     !.target_chat_id = target_chat_id,
                     !.target_message_id = target_message_id]

\* A variant of mark_draft_rejected with a condition on the current status:
\* UPDATE ... WHERE id = ? AND status = 'pending_moderation'
mark_draft_rejected_IfPending(row) ==
    IF row = NoRow THEN NoRow
    ELSE IF row.status = "pending_moderation" THEN [row EXCEPT !.status = "rejected"]
    ELSE row

\* Database.mark_draft_rejected: UPDATE ... WHERE id = ?
mark_draft_rejected(row) ==
    IF row = NoRow THEN NoRow ELSE [row EXCEPT !.status = "rejected"]

\* A variant of image_to_use with the two branches exchanged: the photo passed
\* to the run comes before final_image_url
image_to_use_PhotoFirst(final_image_url, photo_file_id) ==
    IF photo_file_id # NULL THEN photo_file_id
    ELSE IF final_image_url # NULL THEN final_image_url
    ELSE NULL

\* The choice of the image of a publish run (moderation_bot.py:1967-1973)
image_to_use(final_image_url, photo_file_id) ==
    IF final_image_url # NULL THEN final_image_url
    ELSE IF photo_file_id # NULL THEN photo_file_id
    ELSE NULL

\* A variant of SendRaised that commits the draft although the send raised
SendRaised_Commits(channel_id, acc) ==
    [acc EXCEPT !.attempts = Append(@, channel_id),
                !.errors = Append(@, channel_id),
                !.row = mark_draft_published(@, channel_id, NoId)]

\* The except block of the channel loop (moderation_bot.py:2096-2107): the
\* send to channel_id raised
SendRaised(channel_id, acc) ==
    [acc EXCEPT !.attempts = Append(@, channel_id),
                !.errors = Append(@, channel_id)]

\* A variant of SendReturned without the test published_count == 0: every
\* send that returns a message writes the status and the target
SendReturned_EverySuccess(channel_id, photo_error, acc) ==
    LET msgs == [acc.msgs EXCEPT ![channel_id] = @ + 1]
        message_id == msgs[channel_id]
    IN  [acc EXCEPT
           !.attempts = Append(@, channel_id),
           !.errors = IF photo_error THEN Append(@, channel_id) ELSE @,
           !.msgs = msgs,
           !.row = mark_draft_published(@, channel_id, message_id),
           !.writes = Append(@, <<channel_id, message_id>>),
           !.published_count = @ + 1]

\* The rest of the try block once a send to channel_id returned a message
\* (moderation_bot.py:2079-2094); photo_error: the photo send had raised and
\* the text-only send returned it (moderation_bot.py:2021, 2062)
SendReturned(channel_id, photo_error, acc) ==
    LET msgs == [acc.msgs EXCEPT ![channel_id] = @ + 1]
        message_id == msgs[channel_id]      \* the id the channel assigns
        first == acc.published_count = 0
    IN  [acc EXCEPT
           !.attempts = Append(@, channel_id),
           !.errors = IF photo_error THEN Append(@, channel_id) ELSE @,
           !.msgs = msgs,
           !.row = IF first THEN mark_draft_published(@, channel_id, message_id) ELSE @,
           !.writes = IF first THEN Append(@, <<channel_id, message_id>>) ELSE @,
           !.published_count = @ + 1]

\* One iteration of the channel loop of _publish_draft (moderation_bot.py:1979-2107)
PublishStep(channel_id, outcome, acc) ==
    IF outcome = "fail" THEN SendRaised(channel_id, acc)
    ELSE SendReturned(channel_id, outcome = "fallback", acc)

\* A variant of PublishLoop that leaves the loop at the first send that
\* raised (break in the place of continue)
RECURSIVE PublishLoop_StopAtFailure(_, _, _, _)
PublishLoop_StopAtFailure(target_channels, outcomes, i, acc) ==
    IF i > Len(target_channels) THEN acc
    ELSE IF outcomes[i] = "fail" THEN PublishStep(target_channels[i], outcomes[i], acc)
    ELSE PublishLoop_StopAtFailure(target_channels, outcomes, i + 1,
                                   PublishStep(target_channels[i], outcomes[i], acc))

\* The channel loop of _publish_draft from its i-th channel on
RECURSIVE PublishLoop(_, _, _, _)
PublishLoop(target_channels, outcomes, i, acc) ==
    IF i > Len(target_channels) THEN acc
    ELSE PublishLoop(target_channels, outcomes, i + 1,
                     PublishStep(target_channels[i], outcomes[i], acc))

\* ModerationBot._publish_draft on the row `row` of draft d.  The result has
\* the row and the channels' messages after the run, and the run's locals.
publish_draft(row, d, target_channels, photo_file_id, user_id, outcomes) ==
    LET start == [row |-> row, msgs |-> channel_msgs, attempts |-> <<>>,
                  errors |-> <<>>, writes |-> <<>>, published_count |-> 0]
        end == IF row = NoRow THEN start
               ELSE PublishLoop(target_channels, outcomes, 1, start)
    IN  [row |-> end.row,
         msgs |-> end.msgs,
         log |-> [draft_id |-> d,
                  found |-> row # NoRow,
                  status_before |-> row.status,
                  target_channels |-> target_channels,
                  photo_file_id |-> photo_file_id,
                  user_id |-> user_id,
                  outcomes |-> IF row = NoRow THEN <<>> ELSE outcomes,
                  final_image_url |-> IF row = NoRow THEN NULL ELSE row.final_image_url,
                  source_photo |-> IF row = NoRow THEN NULL ELSE row.photo_file_id,
                  image_to_use |-> IF row = NoRow THEN NULL
                                   ELSE image_to_use(row.final_image_url, photo_file_id),
                  attempts |-> end.attempts,
                  errors |-> end.errors,
                  writes |-> end.writes,
                  published_count |-> end.published_count]]

MsgTotal(msgs) == msgs["A"] + msgs["B"] + msgs["C"]

\* The handler step that calls _publish_draft: every choice of the sends' outcomes
RunPublish(row, d, target_channels, photo_file_id, user_id) ==
    \E outcomes \in [1..Len(target_channels) -> Outcomes] :
        LET R == publish_draft(row, d, target_channels, photo_file_id, user_id, outcomes)
        IN  /\ \A i \in 1..Len(target_channels) :
                  outcomes[i] = "fallback" => R.log.image_to_use # NULL
            /\ MsgTotal(R.msgs) <= MaxSends
            /\ draft_posts' = [draft_posts EXCEPT ![d] = R.row]
            /\ channel_msgs' = R.msgs
            /\ lastRun' = R.log

\* ------------------------------------------------------ handler effects
NoChange ==
    /\ lastRun' = NoRun
    /\ UNCHANGED <<config, ingest, source_posts, draft_posts, editing_states, publishing_states,
                   sent_drafts, ticks, notified, channel_msgs>>

SetPublishing(m, value) ==
    /\ publishing_states' = [publishing_states EXCEPT ![m] = value]
    /\ lastRun' = NoRun
    /\ UNCHANGED <<config, ingest, source_posts, draft_posts, editing_states,
                   sent_drafts, ticks, notified, channel_msgs>>

SetRow(d, row) ==
    /\ draft_posts' = [draft_posts EXCEPT ![d] = row]
    /\ lastRun' = NoRun
    /\ UNCHANGED <<config, ingest, source_posts, editing_states, publishing_states,
                   sent_drafts, ticks, notified, channel_msgs>>

\* call _publish_draft, then leave publishing_states[m] as `after`
PublishThen(m, row, d, target_channels, photo_file_id, user_id, after) ==
    /\ RunPublish(row, d, target_channels, photo_file_id, user_id)
    /\ publishing_states' = [publishing_states EXCEPT ![m] = after]
    /\ UNCHANGED <<config, ingest, source_posts, editing_states, sent_drafts, ticks, notified>>

PubState(d, channels) == [draft_id |-> d, channels |-> channels]

ChannelSet == {TARGET_CHANNEL_IDS[i] : i \in 1..Len(TARGET_CHANNEL_IDS)}

\* ------------------------------------------------------ replies
\* Classes of the text messages a handler sends to the moderator:
\*   "published"    a "post published" message
\*   "rejected"     the "draft rejected" message
\*   "updated"      the "text updated" message
\*   "errors"       the summary of the errors of a publish run
\*   "no_title"     the "could not determine the title" message
\*   "no_channels"  the "choose at least one channel" message
\*   "no_query"     the "search query not found" message
\*   "failed"       any other error message
\*   "info"         a prompt, a progress message or a preview

\* The end of _publish_draft (moderation_bot.py:2119-2127): the messages it
\* sends to user_id
error_summary(log) ==
    IF log.found /\ log.errors # <<>> /\ log.user_id # NoId THEN <<"errors">> ELSE <<>>

\* ------------------------------------------------------ Draft Action Handler
\* ModerationBot._handle_approve
handle_approve(m, d, draft) ==
    IF draft.final_image_url # NULL
    THEN IF Len(TARGET_CHANNEL_IDS) = 1
         THEN /\ PublishThen(m, draft, d, <<TARGET_CHANNEL_IDS[1]>>, NULL, m, NoState)
              /\ Reply(error_summary(lastRun') \o <<"published">>)
         ELSE SetPublishing(m, PubState(d, <<>>)) /\ Reply(<<"info">>)
    ELSE /\ SetPublishing(m, PubState(d, <<TARGET_CHANNEL_IDS[1]>>))
         /\ Reply(IF Len(TARGET_CHANNEL_IDS) = 1 THEN <<"info">> ELSE <<"info", "info">>)

\* callback "approve:<draft_id>" (moderation_bot.py:375-381)
callback_approve(m, d) ==
    LET draft == get_draft_post(d)
    IN  IF draft = NoRow THEN NoChange /\ Reply(<<"failed">>)
        ELSE handle_approve(m, d, draft)

\* callback "edit:<draft_id>" (moderation_bot.py:382-388) and _handle_edit
callback_edit(m, d) ==
    IF get_draft_post(d) = NoRow THEN NoChange /\ Reply(<<"failed">>)
    ELSE /\ editing_states' = [editing_states EXCEPT ![m] = d]
         /\ lastRun' = NoRun
         /\ Reply(<<"info">>)
         /\ UNCHANGED <<config, ingest, source_posts, draft_posts, publishing_states,
                        sent_drafts, ticks, notified, channel_msgs>>

\* A variant of the reject callback that rejects pending drafts only
callback_reject_IfPending(m, d) ==
    IF draft_posts[d] # NoRow /\ draft_posts[d].status = "pending_moderation"
    THEN SetRow(d, mark_draft_rejected(draft_posts[d])) /\ Reply(<<"rejected">>)
    ELSE NoChange /\ Reply(<<"failed">>)

\* callback "reject:<draft_id>" (moderation_bot.py:389-391) and _handle_reject
callback_reject(m, d) ==
    SetRow(d, mark_draft_rejected(draft_posts[d])) /\ Reply(<<"rejected">>)

\* ModerationBot._handle_channel_selection
handle_channel_selection(m, d, channel_id) ==
    LET draft == get_draft_post(d)
    IN  IF draft = NoRow
        THEN SetPublishing(m, PubState(d, <<channel_id>>)) /\ Reply(<<"failed">>)
        ELSE IF draft.final_image_url # NULL
             THEN /\ PublishThen(m, draft, d, <<channel_id>>, NULL, m, NoState)
                  /\ Reply(error_summary(lastRun') \o <<"published">>)
             ELSE SetPublishing(m, PubState(d, <<channel_id>>)) /\ Reply(<<"info">>)

\* ModerationBot._handle_multiple_channel_selection
handle_multiple_channel_selection(m, d) ==
    IF publishing_states[m] = NoState
    THEN SetPublishing(m, PubState(d, <<>>)) /\ Reply(<<"info">>)
    ELSE NoChange /\ Reply(<<"info">>)

\* list.remove(x): drop the first occurrence
RECURSIVE ListRemove(_, _)
ListRemove(list, x) ==
    IF list = <<>> THEN <<>>
    ELSE IF Head(list) = x THEN Tail(list)
    ELSE <<Head(list)>> \o ListRemove(Tail(list), x)

InList(x, list) == \E i \in 1..Len(list) : list[i] = x

\* A variant of the toggle that never removes a channel
Toggle_AppendOnly(selected_channels, channel_id) ==
    Append(selected_channels, channel_id)

\* the toggle of _handle_toggle_channel (moderation_bot.py:712-715)
Toggle(selected_channels, channel_id) ==
    IF InList(channel_id, selected_channels)
    THEN ListRemove(selected_channels, channel_id)
    ELSE Append(selected_channels, channel_id)

\* ModerationBot._handle_toggle_channel
handle_toggle_channel(m, d, channel_id) ==
    LET state == IF publishing_states[m] = NoState THEN PubState(d, <<>>)
                 ELSE publishing_states[m]
    IN  /\ SetPublishing(m, [state EXCEPT !.channels = Toggle(@, channel_id)])
        /\ Reply(<<"info">>)

\* A variant of _handle_publish_channels_done without the test of the selection
handle_publish_channels_done_NoEmptyCheck(m, d) ==
    IF publishing_states[m] = NoState THEN NoChange /\ Reply(<<"failed">>)
    ELSE LET selected_channels == publishing_states[m].channels
             draft == get_draft_post(d)
         IN  IF draft = NoRow THEN NoChange /\ Reply(<<"failed">>)
             ELSE IF draft.final_image_url # NULL
                  THEN /\ PublishThen(m, draft, d, selected_channels, NULL, m, NoState)
                       /\ Reply(error_summary(lastRun') \o <<"published">>)
                  ELSE NoChange /\ Reply(<<"info">>)

\* ModerationBot._handle_publish_channels_done
handle_publish_channels_done(m, d) ==
    IF publishing_states[m] = NoState THEN NoChange /\ Reply(<<"failed">>)
    ELSE LET selected_channels == publishing_states[m].channels
             draft == get_draft_post(d)
         IN  IF selected_channels = <<>> THEN NoChange /\ Reply(<<"no_channels">>)
             ELSE IF draft = NoRow THEN NoChange /\ Reply(<<"failed">>)
             ELSE IF draft.final_image_url # NULL
                  THEN /\ PublishThen(m, draft, d, selected_channels, NULL, m, NoState)
                       /\ Reply(error_summary(lastRun') \o <<"published">>)
                  ELSE NoChange /\ Reply(<<"info">>)

\* ModerationBot._handle_publish_source_photo; got_photo: forwarding the source
\* message succeeded and the forwarded message carries an image
handle_publish_source_photo(m, d, got_photo) ==
    IF publishing_states[m] = NoState THEN NoChange /\ Reply(<<"failed">>)
    ELSE LET draft == get_draft_post(d)
         IN  IF draft = NoRow THEN NoChange /\ Reply(<<"failed">>)
             ELSE IF ~got_photo THEN NoChange /\ Reply(<<"failed">>)
             ELSE /\ PublishThen(m, draft, d, publishing_states[m].channels,
                                 SourcePhoto, m, NoState)
                  /\ Reply(error_summary(lastRun') \o <<"published">>)

\* ModerationBot._handle_publish_custom_photo
handle_publish_custom_photo(m, d) ==
    IF publishing_states[m] = NoState
    THEN IF Len(TARGET_CHANNEL_IDS) = 1
         THEN SetPublishing(m, PubState(d, <<TARGET_CHANNEL_IDS[1]>>)) /\ Reply(<<"info">>)
         ELSE NoChange /\ Reply(<<"failed">>)
    ELSE NoChange /\ Reply(<<"info">>)

\* ModerationBot._handle_publish_no_photo
handle_publish_no_photo(m, d) ==
    IF publishing_states[m] = NoState THEN NoChange /\ Reply(<<"failed">>)
    ELSE /\ PublishThen(m, get_draft_post(d), d, publishing_states[m].channels,
                        NULL, m, NoState)
         /\ Reply(error_summary(lastRun') \o <<"published">>)

\* Messages a moderator types while editing
EditTexts == {
    <<"N", "\n", "b", " ", "#", "y">>,      \* title, body and a hashtag
    <<"#", "y">> }                          \* hashtags only: no title line

\* Messages of every shape the parsing distinguishes: lines, blank lines,
\* hashtags at the start, in the middle and at the end, surrounding blanks
EditSamples == {
    <<"T", "\n", "b", "\n", "x", " ", "#", "y", " ", "#", "x">>,
    <<"#", "y", "\n", "N", "\n", "b">>,
    <<"\n", "N", "\n", "b">>,
    <<"N", "\n", "\n", "b", "\n", " ", "x">>,
    <<"N", " ", "#", "y", " ", "b">>,
    <<" ", "N", "#", "y", "\n", "#", " ", "x">>,
    <<"N">>,
    <<"#", "y">>,
    <<" ", "\n", "#", "x", " ">>,
    <<>> }

\* A variant of _handle_edit_text without the test of the title
handle_edit_text_NoTitleCheck(m, d, text) ==
    LET parsed == parse_hashtags_from_text(text)
        tb == parse_title_and_body(parsed[1])
        row == draft_posts[d]
    IN  IF row = NoRow THEN NoChange /\ Reply(<<"failed">>)
        ELSE /\ SetRow(d, [row EXCEPT !.title = tb[1], !.body = tb[2],
                                      !.hashtags = parsed[2]])
             /\ Reply(<<"updated", "info">>)

\* ModerationBot._handle_edit_text
handle_edit_text(m, d, text) ==
    LET parsed == parse_hashtags_from_text(text)
        tb == parse_title_and_body(parsed[1])
        row == draft_posts[d]
    IN  IF tb[1] = <<>> THEN NoChange /\ Reply(<<"no_title">>)
        ELSE IF row = NoRow THEN NoChange /\ Reply(<<"failed">>)
        ELSE /\ SetRow(d, [row EXCEPT !.title = tb[1], !.body = tb[2],
                                      !.hashtags = parsed[2]])
             /\ Reply(<<"updated", "info">>)

\* ModerationBot.message_handler, moderation_bot.py:1092-1197: a photo from a
\* moderator with a publishing state
handle_custom_photo(m, download_ok, render_ok) ==
    LET d == publishing_states[m].draft_id
        selected_channels == publishing_states[m].channels
        draft == get_draft_post(d)
    IN  IF draft = NoRow THEN SetPublishing(m, NoState) /\ Reply(<<"failed">>)
        ELSE IF ~download_ok THEN SetPublishing(m, NoState) /\ Reply(<<"info", "failed">>)
        ELSE IF ~render_ok
             THEN /\ PublishThen(m, draft, d, selected_channels, CustomPhoto, m, NoState)
                  /\ Reply(<<"info", "failed">> \o error_summary(lastRun') \o <<"published">>)
             ELSE /\ PublishThen(m, [draft EXCEPT !.final_image_url = StyledUrl], d,
                                 selected_channels, NULL, m, NoState)
                  /\ Reply(<<"info">> \o error_summary(lastRun') \o <<"published">>)

\* ModerationBot.message_handler for a message of a moderator; kind is "text"
\* or "photo" (a photo or an image document)
\* A variant of message_handler that ends at the debug log of a message
\* outside the editing and publishing modes, without the check for new drafts
message_handler_IdleIgnored(m, kind, text, download_ok, render_ok) ==
    IF editing_states[m] # NoId
    THEN IF kind = "text" THEN handle_edit_text(m, editing_states[m], text)
         ELSE NoChange /\ Reply(<<"info">>)
    ELSE IF publishing_states[m] # NoState
    THEN IF kind = "photo" THEN handle_custom_photo(m, download_ok, render_ok)
         ELSE NoChange /\ Reply(<<"info">>)
    ELSE NoChange /\ Reply(<<>>)

message_handler(m, kind, text, download_ok, render_ok) ==
    IF editing_states[m] # NoId
    THEN IF kind = "text" THEN handle_edit_text(m, editing_states[m], text)
         ELSE NoChange /\ Reply(<<"info">>)
    ELSE IF publishing_states[m] # NoState
    THEN IF kind = "photo" THEN handle_custom_photo(m, download_ok, render_ok)
         ELSE NoChange /\ Reply(<<"info">>)
    ELSE \* moderation_bot.py:1206-1210
         /\ StartTick("ondemand")
         /\ lastRun' = NoRun
         /\ Reply(<<>>)
         /\ UNCHANGED <<config, ingest, source_posts, draft_posts, editing_states,
                        publishing_states, sent_drafts, notified, channel_msgs>>

\* ModerationBot._handle_change_image; found: images the search returned
handle_change_image(m, d, found) ==
    LET draft == get_draft_post(d)
    IN  IF draft = NoRow THEN NoChange /\ Reply(<<"failed">>)
        ELSE IF draft.image_query = NULL THEN NoChange /\ Reply(<<"no_query">>)
        ELSE IF found = 0 THEN NoChange /\ Reply(<<"info", "failed">>)
        ELSE SetRow(d, [draft EXCEPT !.pexels_images = found]) /\ Reply(<<"info", "info">>)

\* ModerationBot._handle_show_images_for_publish.  A missing image_query is
\* replaced by a keyword query in a local variable; the attempt to store it
\* (moderation_bot.py:1465) raises TypeError, update_draft_post having no
\* image_query parameter, and is caught.
handle_show_images_for_publish(m, d, found) ==
    LET draft == get_draft_post(d)
    IN  IF draft = NoRow THEN NoChange /\ Reply(<<"failed">>)
        ELSE IF found = 0 THEN NoChange /\ Reply(<<"info", "failed">>)
        ELSE /\ SetRow(d, [draft EXCEPT !.pexels_images = found])
             /\ Reply(<<"info", "info", "info">>)

\* ModerationBot._handle_select_image
handle_select_image(m, d, image_index, found, render_ok) ==
    LET draft == get_draft_post(d)
    IN  IF draft = NoRow THEN NoChange /\ Reply(<<"failed">>)
        ELSE IF draft.pexels_images = 0 /\ draft.image_query = NULL
             THEN NoChange /\ Reply(<<"no_query">>)
        ELSE LET pexels_images == IF draft.pexels_images = 0 THEN found
                                  ELSE draft.pexels_images
                 saved == [draft EXCEPT !.pexels_images = pexels_images]
             IN  IF pexels_images = 0 \/ image_index >= pexels_images
                 THEN SetRow(d, saved) /\ Reply(<<"failed">>)
                 ELSE IF ~render_ok THEN SetRow(d, saved) /\ Reply(<<"info", "failed">>)
                 ELSE /\ SetRow(d, [saved EXCEPT !.final_image_url = StyledUrl])
                      /\ Reply(<<"info", "info">>)

\* A variant of _handle_select_image_for_publish that publishes only when the
\* moderator has a publishing state
handle_select_image_for_publish_IntentOnly(m, d, image_index, render_ok) ==
    LET draft == get_draft_post(d)
    IN  IF draft = NoRow THEN NoChange /\ Reply(<<"failed">>)
        ELSE IF draft.pexels_images = 0 \/ image_index >= draft.pexels_images
             THEN NoChange /\ Reply(<<"failed">>)
        ELSE IF ~render_ok THEN NoChange /\ Reply(<<"info", "failed">>)
        ELSE LET row == [draft EXCEPT !.final_image_url = StyledUrl]
             IN  IF publishing_states[m] # NoState
                 THEN /\ PublishThen(m, row, d, publishing_states[m].channels,
                                     NULL, NoId, NoState)
                      /\ Reply(<<"info">> \o error_summary(lastRun') \o <<"published">>)
                 ELSE SetRow(d, row) /\ Reply(<<"info", "info">>)

\* ModerationBot._handle_select_image_for_publish
handle_select_image_for_publish(m, d, image_index, render_ok) ==
    LET draft == get_draft_post(d)
    IN  IF draft = NoRow THEN NoChange /\ Reply(<<"failed">>)
        ELSE IF draft.pexels_images = 0 \/ image_index >= draft.pexels_images
             THEN NoChange /\ Reply(<<"failed">>)
        ELSE IF ~render_ok THEN NoChange /\ Reply(<<"info", "failed">>)
        ELSE LET row == [draft EXCEPT !.final_image_url = StyledUrl]
             IN  IF publishing_states[m] # NoState
                 THEN /\ PublishThen(m, row, d, publishing_states[m].channels,
                                     NULL, NoId, NoState)
                      /\ Reply(<<"info">> \o error_summary(lastRun') \o <<"published">>)
                 ELSE IF Len(TARGET_CHANNEL_IDS) = 1
                      THEN /\ PublishThen(m, row, d, <<TARGET_CHANNEL_IDS[1]>>,
                                          NULL, NoId, NoState)
                           /\ Reply(<<"info">> \o error_summary(lastRun') \o <<"published">>)
                      ELSE SetRow(d, row) /\ Reply(<<"info", "failed">>)

\* ModerationBot._handle_generate_simpsons; image_ok: an image URL came back
handle_generate_simpsons(m, d, image_ok) ==
    LET draft == get_draft_post(d)
    IN  IF draft = NoRow THEN NoChange /\ Reply(<<"failed">>)
        ELSE IF ~image_ok THEN NoChange /\ Reply(<<"info", "failed">>)
        ELSE /\ SetRow(d, [draft EXCEPT !.final_image_url = StyledUrl])
             /\ Reply(<<"info">>)

\* ------------------------------------------------------------- the program
Approve == \E m \in Moderators, d \in DraftIds : HandlerFree /\ callback_approve(m, d)
Edit == \E m \in Moderators, d \in DraftIds : HandlerFree /\ callback_edit(m, d)
Reject == \E m \in Moderators, d \in DraftIds : HandlerFree /\ callback_reject(m, d)
SelectChannel ==
    \E m \in Moderators, d \in DraftIds, c \in ChannelSet :
        HandlerFree /\ handle_channel_selection(m, d, c)
SelectMultiple ==
    \E m \in Moderators, d \in DraftIds :
        HandlerFree /\ handle_multiple_channel_selection(m, d)
ToggleChannel ==
    \E m \in Moderators, d \in DraftIds, c \in ChannelSet :
        HandlerFree /\ handle_toggle_channel(m, d, c)
ChannelsDone ==
    \E m \in Moderators, d \in DraftIds : HandlerFree /\ handle_publish_channels_done(m, d)
PublishSourcePhoto ==
    \E m \in Moderators, d \in DraftIds, got_photo \in BOOLEAN :
        /\ HandlerFree
        /\ got_photo => (draft_posts[d] # NoRow /\ draft_posts[d].photo_file_id # NULL)
        /\ handle_publish_source_photo(m, d, got_photo)
PublishCustomPhoto ==
    \E m \in Moderators, d \in DraftIds : HandlerFree /\ handle_publish_custom_photo(m, d)
PublishNoPhoto ==
    \E m \in Moderators, d \in DraftIds : HandlerFree /\ handle_publish_no_photo(m, d)
\* a message from a moderator who has an editing state
MessageEditing ==
    \E m \in Moderators, kind \in {"text", "photo"}, text \in EditTexts :
        /\ HandlerFree
        /\ editing_states[m] # NoId
        /\ message_handler(m, kind, text, TRUE, TRUE)
\* a message from a moderator who has a publishing state and no editing state
MessagePublishing ==
    \E m \in Moderators, kind \in {"text", "photo"}, download_ok \in BOOLEAN,
       render_ok \in BOOLEAN :
        /\ HandlerFree
        /\ editing_states[m] = NoId /\ publishing_states[m] # NoState
        /\ message_handler(m, kind, <<>>, download_ok, render_ok)
\* a message from a moderator who has neither
MessageIdle ==
    \E m \in Moderators :
        /\ HandlerFree
        /\ editing_states[m] = NoId /\ publishing_states[m] = NoState
        /\ message_handler(m, "text", <<>>, TRUE, TRUE)
ChangeImage ==
    \E m \in Moderators, d \in DraftIds, found \in 0..MaxImages :
        HandlerFree /\ handle_change_image(m, d, found)
ShowImages ==
    \E m \in Moderators, d \in DraftIds, found \in 0..MaxImages :
        HandlerFree /\ handle_show_images_for_publish(m, d, found)
SelectImage ==
    \E m \in Moderators, d \in DraftIds, i \in 0..MaxImages, found \in 0..MaxImages,
       render_ok \in BOOLEAN :
        HandlerFree /\ handle_select_image(m, d, i, found, render_ok)
SelectImageForPublish ==
    \E m \in Moderators, d \in DraftIds, i \in 0..MaxImages, render_ok \in BOOLEAN :
        HandlerFree /\ handle_select_image_for_publish(m, d, i, render_ok)
GenerateSimpsons ==
    \E m \in Moderators, d \in DraftIds, image_ok \in BOOLEAN :
        HandlerFree /\ handle_generate_simpsons(m, d, image_ok)

Next ==
    \/ AddDraft \/ AgeDraft
    \/ TickBegin \/ TickSendOk \/ TickSendFail \/ StartCommand \/ MessageIdle
    \/ Approve \/ Edit \/ Reject
    \/ SelectChannel \/ SelectMultiple \/ ToggleChannel \/ ChannelsDone
    \/ PublishSourcePhoto \/ PublishCustomPhoto \/ PublishNoPhoto
    \/ MessageEditing \/ MessagePublishing
    \/ ChangeImage \/ ShowImages \/ SelectImage \/ SelectImageForPublish
    \/ GenerateSimpsons

Spec == Init /\ [][Next]_vars

\* The delivery scheduler with everything it reads: the pending drafts, their
\* age, and a status change that takes a draft out of the pending list.  The
\* drafts carry no image query and no source photo, which no tick reads.
AddPlainDraft ==
    /\ AddDraft
    /\ \A d \in DraftIds : draft_posts'[d] # NoRow =>
          draft_posts'[d].image_query = NULL /\ draft_posts'[d].photo_file_id = NULL

InitDelivery == InitWith([i \in 1..NumModerators |-> i], {<<"A">>}, MaxDrafts) /\ observe = FALSE

NextDelivery ==
    \/ AddPlainDraft \/ AgeDraft \/ Reject
    \/ TickBegin \/ TickSendOk \/ TickSendFail \/ StartCommand \/ MessageIdle

SpecDelivery == InitDelivery /\ [][NextDelivery]_vars

\* The delivery scheduler with two moderators: the periodic tick and the tick
\* of /start over the drafts the worker adds, sends that succeed or fail, and
\* a reject that takes a draft out of the pending list.
InitTicks == InitWith(<<1, 2>>, {<<"A">>}, 2) /\ observe = FALSE

NextTicks ==
    \/ AddPlainDraft \/ Reject
    \/ TickBegin \/ TickSendOk \/ TickSendFail \/ StartCommand

SpecTicks == InitTicks /\ [][NextTicks]_vars

\* Free-form messages of two moderators, each idle or with a session opened
\* by approve or edit, and the on-demand tick such a message starts.
InitIdle == InitWith(<<1, 2>>, {<<"A">>}, 2) /\ observe = TRUE

NextIdle ==
    \/ AddPlainDraft \/ Approve \/ Edit
    \/ MessageIdle \/ TickSendOk \/ TickSendFail

SpecIdle == InitIdle /\ [][NextIdle]_vars

\* The delivery scheduler next to the actions of two moderators, with the
\* failures of both: a tick that raises, sends to a moderator that raise, and
\* publish runs whose sends fail.  auto_send_loop starts a tick every interval,
\* and a send to a moderator returns or raises within the timeout of the
\* request: a tick that can begin does begin, and a tick that is sending goes
\* on.
InitSched == InitWith(<<1, 2>>, {<<"A">>}, 1) /\ observe = FALSE

NextSched ==
    \/ AddPlainDraft \/ Approve \/ Edit \/ PublishNoPhoto
    \/ TickBegin \/ TickRaises \/ TickSendOk \/ TickSendFail

SpecSched ==
    /\ InitSched /\ [][NextSched]_vars
    /\ WF_vars(TickBegin)
    /\ WF_vars(TickSendOk \/ TickSendFail)

\* The delivery scheduler when every send succeeds and no draft grows old.
\* auto_send_loop starts a tick every interval for as long as the process
\* runs, and a send that succeeds returns: a tick that can begin does begin,
\* and a tick that is sending goes on to its next send.
NextLive ==
    \/ AddPlainDraft \/ Reject
    \/ TickBegin \/ TickSendOk \/ StartCommand \/ MessageIdle

SpecLive ==
    /\ InitDelivery /\ [][NextLive]_vars
    /\ WF_vars(TickBegin)
    /\ \A t \in TickTasks : WF_vars(TickSendStep(t, TRUE))

\* The review and publish workflow of one moderator on one draft: every
\* handler except the two that only start a delivery tick.  The tick writes
\* sent_drafts, ticks and notified only, which no handler of this
\* specification reads.
InitWorkflow == InitWith(<<1>>, {<<"A">>, <<"A", "B">>}, 1) /\ observe = FALSE

NextWorkflow ==
    \/ AddDraft
    \/ Approve \/ Edit \/ Reject
    \/ SelectChannel \/ SelectMultiple \/ ToggleChannel \/ ChannelsDone
    \/ PublishSourcePhoto \/ PublishCustomPhoto \/ PublishNoPhoto
    \/ MessageEditing \/ MessagePublishing
    \/ ChangeImage \/ ShowImages \/ SelectImage \/ SelectImageForPublish
    \/ GenerateSimpsons

SpecWorkflow == InitWorkflow /\ [][NextWorkflow]_vars

\* Publication to three target channels: the handlers that build the channel
\* selection, set the image, change the status, and call _publish_draft.
InitFanout == InitWith(<<1>>, {<<"A", "B", "C">>}, 1) /\ observe = FALSE

NextFanout ==
    \/ AddDraft
    \/ Approve \/ Reject
    \/ SelectChannel \/ SelectMultiple \/ ToggleChannel \/ ChannelsDone
    \/ PublishSourcePhoto \/ PublishNoPhoto \/ MessagePublishing
    \/ SelectImageForPublish \/ GenerateSimpsons

SpecFanout == InitFanout /\ [][NextFanout]_vars

\* The moderation workflow of SpecWorkflow with the answers to the moderator
\* recorded.
InitAnswers == InitWith(<<1>>, {<<"A">>, <<"A", "B">>}, 1) /\ observe = TRUE

SpecAnswers == InitAnswers /\ [][NextWorkflow]_vars

\* Choosing the channels and the image of a publication: approve, the channel
\* selection and its confirmation, the image searches and both handlers that
\* pick an image.
InitChoose == InitWith(<<1>>, {<<"A">>, <<"A", "B">>}, 1) /\ observe = TRUE

NextChoose ==
    \/ AddDraft
    \/ Approve \/ SelectMultiple \/ ToggleChannel \/ ChannelsDone
    \/ ChangeImage \/ ShowImages \/ SelectImage \/ SelectImageForPublish
    \/ GenerateSimpsons

SpecChoose == InitChoose /\ [][NextChoose]_vars

\* The listener storing source posts and the generation worker processing
\* them, over a store that starts empty.
InitIngest == InitWith(<<1>>, {<<"A">>}, 0) /\ observe = FALSE

NextIngest == AddSourcePost \/ AddPlainDraft

SpecIngest == InitIngest /\ [][NextIngest]_vars

\* a moderator picks an image for a pending draft that has no final image,
\* before anything was sent to a channel, with either handler that picks
PickImage ==
    \E m \in Moderators, d \in DraftIds, i \in 0..MaxImages, found \in 0..MaxImages,
       render_ok \in BOOLEAN :
        /\ HandlerFree
        /\ draft_posts[d] # NoRow
        /\ draft_posts[d].status = "pending_moderation"
        /\ draft_posts[d].final_image_url = NULL
        /\ MsgTotal(channel_msgs) = 0
        /\ \/ handle_select_image(m, d, i, found, render_ok)
           \/ handle_select_image_for_publish(m, d, i, render_ok)

\* One moderator, one destination channel, one draft: the image searches of
\* the publish flow, the pick of an image as above, and approve.
InitPickApprove == InitWith(<<1>>, {<<"A">>}, 1) /\ observe = TRUE

NextPickApprove == AddDraft \/ ShowImages \/ PickImage \/ Approve

SpecPickApprove == InitPickApprove /\ [][NextPickApprove]_vars

\* One moderator with two drafts under review at once and two target
\* channels: the channel choice for each draft and the publish buttons of the
\* options message, which stay pressable after the moderator turns to the
\* other draft.
InitTwoDrafts == InitWith(<<1>>, {<<"A", "B">>}, 2) /\ observe = FALSE

NextTwoDrafts ==
    \/ AddDraft \/ Approve \/ SelectChannel
    \/ PublishNoPhoto \/ PublishSourcePhoto

SpecTwoDrafts == InitTwoDrafts /\ [][NextTwoDrafts]_vars

\* ------------------------------------------------------ generation worker
\* ids of the rows of draft_posts made from source post p
DraftsOf(p) ==
    {d \in DraftIds : draft_posts[d] # NoRow /\ draft_posts[d].source_post_id = p}

\* GPTWorker._process_post on source post p.  gpt_ok: _call_gpt returned a
\* result; pexels: the images the search found; insert_ok, mark_ok: whether
\* add_draft_post and mark_source_post_processed, two transactions of their
\* own, return or raise (the except block logs the exception and returns).
process_post(p, gpt_ok, pexels, insert_ok, mark_ok) ==
    LET draft_id == 1 + Cardinality({d \in DraftIds : draft_posts[d] # NoRow})
    IN  IF ~gpt_ok \/ ~insert_ok
        THEN UNCHANGED <<draft_posts, source_posts>>
        ELSE /\ draft_id \in DraftIds
             /\ draft_posts' = [draft_posts EXCEPT
                                  ![draft_id] = NewDraft(p, ImageQuery, pexels, NULL)]
             /\ source_posts' = IF mark_ok THEN [source_posts EXCEPT ![p] = "processed"]
                                ELSE source_posts

\* GPTWorker.process_loop: every post get_new_source_posts returns is handed
\* to _process_post
ProcessPost ==
    \E p \in DraftIds, gpt_ok \in BOOLEAN, pexels \in 0..MaxImages,
       insert_ok \in BOOLEAN, mark_ok \in BOOLEAN :
        /\ source_posts[p] = "new"
        /\ process_post(p, gpt_ok, pexels, insert_ok, mark_ok)
        /\ lastRun' = NoRun /\ replies' = <<>>
        /\ UNCHANGED <<config, ingest, editing_states, publishing_states,
                       sent_drafts, ticks, notified, channel_msgs>>

\* The listener storing source posts and the loop of the generation worker
\* over them, over a store that starts empty.
InitWorker == InitWith(<<1>>, {<<"A">>}, 0) /\ observe = FALSE

NextWorker == AddSourcePost \/ ProcessPost

SpecWorker == InitWorker /\ [][NextWorker]_vars

\* ------------------------------------------------------------ VK forwarder
\* Python's max over a set of ids, `low` when the set is empty
MaxOf(S, low) == IF S = {} THEN low ELSE CHOOSE x \in S : \A y \in S : y <= x

\* load_state: the content of STATE_FILE, or the default state when the file
\* is missing or cannot be read
load_state(readable) == IF readable THEN vk_state ELSE NoVkState

\* save_state: writes STATE_FILE; a write error is logged and not raised
save_state(state, written) == vk_state' = IF written THEN state ELSE vk_state

\* process_posts, one whole run.  posts: the ids get_vk_posts returned;
\* send_ok: the posts whose Telegram request succeeds; readable, written:
\* whether STATE_FILE can be read and written in this run.
process_posts(posts, send_ok, readable, written) ==
    LET state == load_state(readable)
        last_id == state.last_post_id
        initialized == state.initialized
        sent == {post_id \in posts : post_id > last_id /\ post_id \in send_ok}
        new_last_id == MaxOf(sent, last_id)
    IN  IF posts = {}
        THEN /\ vk_run' = [before |-> vk_state, posts |-> posts, sent |-> {}]
             /\ UNCHANGED <<vk_state, vk_sent>>
        ELSE IF ~initialized
        THEN /\ save_state([last_post_id |-> MaxOf(posts, 0), initialized |-> TRUE], written)
             /\ vk_run' = [before |-> vk_state, posts |-> posts, sent |-> {}]
             /\ UNCHANGED vk_sent
        ELSE /\ \A post_id \in sent : vk_sent[post_id] < MaxVkSends
             /\ vk_sent' = [post_id \in VkPostIds |->
                               IF post_id \in sent THEN vk_sent[post_id] + 1
                               ELSE vk_sent[post_id]]
             /\ vk_run' = [before |-> vk_state, posts |-> posts, sent |-> sent]
             /\ IF new_last_id > last_id
                THEN save_state([state EXCEPT !.last_post_id = new_last_id], written)
                ELSE UNCHANGED vk_state

\* main: one run of process_posts per CHECK_INTERVAL (service mode) or per
\* start (cron mode)
ProcessPosts ==
    \E posts \in SUBSET VkPostIds, send_ok \in SUBSET VkPostIds,
       readable \in BOOLEAN, written \in BOOLEAN :
        /\ send_ok \subseteq posts
        /\ process_posts(posts, send_ok, readable, written)
        /\ UNCHANGED <<config, source_posts, source_keys, insert_result, draft_posts,
                       editing_states, publishing_states, sent_drafts, ticks, notified,
                       channel_msgs, lastRun, replies>>

InitForward == InitWith(<<1>>, {<<"A">>}, 0) /\ observe = FALSE

NextForward == ProcessPosts

SpecForward == InitForward /\ [][NextForward]_vars

\* Two moderators acting on the same draft: approve and the publish variant
\* without a photo, edit, reject, and the handler that gives the draft a final
\* image.
InitRace == InitWith(<<1, 2>>, {<<"A">>}, 1) /\ observe = TRUE

NextRace ==
    \/ AddDraft
    \/ Approve \/ Edit \/ Reject \/ PublishNoPhoto \/ GenerateSimpsons

SpecRace == InitRace /\ [][NextRace]_vars

\* a text message from a moderator who has an editing state
MessageEditingSample ==
    \E m \in Moderators, text \in EditSamples :
        /\ HandlerFree
        /\ editing_states[m] # NoId
        /\ message_handler(m, "text", text, TRUE, TRUE)

\* One moderator editing one draft: the edit button, the messages typed while
\* editing, and the handlers a moderator can reach from the preview.
InitEdit == InitWith(<<1>>, {<<"A">>}, 1) /\ observe = TRUE

NextEdit ==
    \/ AddDraft
    \/ Edit \/ MessageEditingSample \/ Approve \/ Reject \/ GenerateSimpsons

SpecEdit == InitEdit /\ [][NextEdit]_vars

\* ------------------------------------------------------------- properties
\* The columns of draft_posts that record where a draft was published
\* (database.py:432-436): the set of channels recorded for the row
PublishTarget(row) ==
    IF row = NoRow \/ row.target_chat_id = NULL THEN {} ELSE {row.target_chat_id}

\* C1: for any draft and any moderator, over any number of ticks, periodic or
\* on demand, whatever the outcome of the sends, the moderator receives at
\* most one review notification for the draft.
C1_AtMostOneNotification ==
    \A d \in DraftIds : \A m \in Moderators : notified[d][m] <= 1

\* C2: once the status of a draft is published or rejected, no step changes
\* its status, title, body, hashtags or final image.
C2_TerminalImmutable ==
    [][\A d \in DraftIds :
          (draft_posts[d] # NoRow /\ draft_posts[d].status \in {"published", "rejected"})
          => /\ draft_posts'[d].status = draft_posts[d].status
             /\ draft_posts'[d].title = draft_posts[d].title
             /\ draft_posts'[d].body = draft_posts[d].body
             /\ draft_posts'[d].hashtags = draft_posts[d].hashtags
             /\ draft_posts'[d].final_image_url = draft_posts[d].final_image_url]_vars

\* C3: approve on a draft that is published or rejected sends nothing to any
\* target channel and leaves the status and the recorded target of the draft
\* as they were.
C3_ApproveTerminalNoOp ==
    [][\A m \in Moderators : \A d \in DraftIds :
          (/\ draft_posts[d] # NoRow
           /\ draft_posts[d].status \in {"published", "rejected"}
           /\ HandlerFree /\ callback_approve(m, d))
          => /\ channel_msgs' = channel_msgs
             /\ draft_posts'[d].status = draft_posts[d].status
             /\ draft_posts'[d].target_chat_id = draft_posts[d].target_chat_id
             /\ draft_posts'[d].target_message_id = draft_posts[d].target_message_id]_vars

\* C4 as stated: a run over [A, B, C] in which the send to B fails and the
\* sends to A and C succeed leaves the draft published with a recorded target
\* that contains A and C and not B, and an error list that names B.
C4_TargetHoldsEverySuccess ==
    (/\ lastRun # NoRun /\ lastRun.found
     /\ lastRun.target_channels = <<"A", "B", "C">>
     /\ lastRun.outcomes = <<"ok", "fail", "ok">>)
    => /\ draft_posts[lastRun.draft_id].status = "published"
       /\ {"A", "C"} \subseteq PublishTarget(draft_posts[lastRun.draft_id])
       /\ "B" \notin PublishTarget(draft_posts[lastRun.draft_id])
       /\ InList("B", lastRun.errors)

\* C4 amended: such a run leaves the draft published with the recorded target
\* being A alone, the first channel whose send succeeded, with the id of the
\* message sent to A; C receives the message and is not recorded; the error
\* list names B and nothing else.
C4_TargetIsFirstSuccess ==
    (/\ lastRun # NoRun /\ lastRun.found
     /\ lastRun.target_channels = <<"A", "B", "C">>
     /\ lastRun.outcomes = <<"ok", "fail", "ok">>)
    => /\ draft_posts[lastRun.draft_id].status = "published"
       /\ PublishTarget(draft_posts[lastRun.draft_id]) = {"A"}
       /\ draft_posts[lastRun.draft_id].target_message_id = channel_msgs["A"]
       /\ lastRun.published_count = 2
       /\ channel_msgs["C"] > 0
       /\ lastRun.errors = <<"B">>

\* a run over [A, B, C] with B failing and A and C succeeding has been made
C4_Witness ==
    /\ lastRun # NoRun /\ lastRun.found
    /\ lastRun.target_channels = <<"A", "B", "C">>
    /\ lastRun.outcomes = <<"ok", "fail", "ok">>
    /\ lastRun.status_before = "pending_moderation"

\* C5: a publish run whose send fails on every target channel leaves the
\* status of the draft as it was, so a pending draft is still pending; and
\* approve on a pending draft always starts the publish flow: it runs
\* _publish_draft on the draft or records the moderator's intent to publish it.
C5_AllFailedStaysPending ==
    [][/\ (/\ lastRun' # NoRun /\ lastRun'.found
           /\ lastRun'.published_count = 0)
          => draft_posts'[lastRun'.draft_id].status = lastRun'.status_before
       /\ \A m \in Moderators : \A d \in DraftIds :
             (/\ draft_posts[d] # NoRow
              /\ draft_posts[d].status = "pending_moderation"
              /\ HandlerFree /\ callback_approve(m, d))
             => \/ lastRun'.draft_id = d
                \/ publishing_states'[m].draft_id = d]_vars

\* a run on a pending draft has failed on every one of its channels
C5_Witness ==
    /\ lastRun # NoRun /\ lastRun.found
    /\ lastRun.target_channels # <<>>
    /\ \A i \in 1..Len(lastRun.outcomes) : lastRun.outcomes[i] = "fail"
    /\ lastRun.status_before = "pending_moderation"
    /\ draft_posts[lastRun.draft_id].status = "pending_moderation"

\* C6: a publish run attempts every channel of its target list, in list
\* order; a send that fails is named in the error list and the channels after
\* it are attempted all the same, each send counting on its own.
C6_EveryChannelAttempted ==
    (lastRun # NoRun /\ lastRun.found)
    => /\ lastRun.attempts = lastRun.target_channels
       /\ \A i \in 1..Len(lastRun.target_channels) :
             lastRun.outcomes[i] = "fail"
             => InList(lastRun.target_channels[i], lastRun.errors)
       /\ lastRun.published_count =
             Cardinality({i \in 1..Len(lastRun.target_channels) :
                             lastRun.outcomes[i] # "fail"})

\* a run in which a send failed and the send to a later channel succeeded
C6_Witness ==
    /\ lastRun # NoRun /\ lastRun.found
    /\ \E i \in 1..Len(lastRun.target_channels) :
          /\ lastRun.outcomes[i] = "fail"
          /\ \E j \in (i+1)..Len(lastRun.target_channels) : lastRun.outcomes[j] = "ok"

\* C7: a publish run writes the published status and the target at most
\* once, at the first channel whose send succeeds, with that channel and the
\* id of the message sent to it; later sends that succeed write nothing; a
\* run without a send that succeeds writes nothing.
C7_CommitAtFirstSuccess ==
    (lastRun # NoRun /\ lastRun.found)
    => LET succeeded == {i \in 1..Len(lastRun.target_channels) :
                            lastRun.outcomes[i] # "fail"}
       IN  IF succeeded = {} THEN lastRun.writes = <<>>
           ELSE LET k == CHOOSE i \in succeeded : \A j \in succeeded : i <= j
                    c == lastRun.target_channels[k]
                    row == draft_posts[lastRun.draft_id]
                IN  /\ lastRun.writes = << <<c, channel_msgs[c]>> >>
                    /\ row.status = "published"
                    /\ row.target_chat_id = c
                    /\ row.target_message_id = channel_msgs[c]

\* a run in which a send succeeded after the first one that did, the first
\* success not being the first channel of the list
C7_Witness ==
    /\ lastRun # NoRun /\ lastRun.found
    /\ lastRun.target_channels # <<>>
    /\ lastRun.outcomes[1] = "fail"
    /\ lastRun.published_count >= 2

\* C8: every draft that stays pending is eventually shown to every moderator,
\* provided ticks keep running and sends succeed, also when several drafts
\* are pending at the same time.
C8_PendingEventuallyShown ==
    \A d \in DraftIds : \A m \in 1..NumModerators :
        (draft_posts[d] # NoRow /\ draft_posts[d].status = "pending_moderation")
        ~> \/ notified[d][m] > 0
           \/ draft_posts[d].status # "pending_moderation"

\* C9: no moderator holds an editing draft and a publish intent at the same
\* time.
C9_OneSessionState ==
    \A m \in Moderators :
        ~(editing_states[m] # NoId /\ publishing_states[m] # NoState)

\* C10 as stated: the image of a publish run is the photo passed to the run
\* if there is one, else final_image_url of the draft, else the image of the
\* source post, else none.
C10_PhotoOverrideFirst ==
    (lastRun # NoRun /\ lastRun.found)
    => lastRun.image_to_use =
          IF lastRun.photo_file_id # NULL THEN lastRun.photo_file_id
          ELSE IF lastRun.final_image_url # NULL THEN lastRun.final_image_url
          ELSE IF lastRun.source_photo # NULL THEN lastRun.source_photo
          ELSE NULL

\* C10 amended: the image of a publish run is final_image_url of the draft if
\* it is set, else the photo passed to the run (the moderator's photo, or the
\* photo of the source post when the moderator chose it), else none; the
\* image of the source post is used only when it is passed to the run.
C10_FinalImageFirst ==
    (lastRun # NoRun /\ lastRun.found)
    => /\ lastRun.image_to_use =
             IF lastRun.final_image_url # NULL THEN lastRun.final_image_url
             ELSE lastRun.photo_file_id
       /\ lastRun.image_to_use = SourcePhoto => lastRun.photo_file_id = SourcePhoto
       /\ lastRun.photo_file_id = SourcePhoto => lastRun.source_photo = SourcePhoto

\* a run on a draft with a final image that was passed a moderator's photo
C10_Witness ==
    /\ lastRun # NoRun /\ lastRun.found
    /\ lastRun.final_image_url # NULL
    /\ lastRun.photo_file_id = CustomPhoto

\* C11: whenever a publish run has a channel whose send failed, the moderator
\* whose action started the run receives the summary of the run's errors,
\* whichever action started it.
C11_ErrorSummaryDelivered ==
    (/\ lastRun # NoRun /\ lastRun.found
     /\ \E i \in 1..Len(lastRun.target_channels) : lastRun.outcomes[i] = "fail")
    => InList("errors", replies)

\* C12: an action of a moderator is acknowledged to the moderator once: the
\* messages sent for it hold at most one success, error summary or failure
\* message (prompts, progress messages and previews aside).
C12_OneAcknowledgement ==
    Cardinality({i \in 1..Len(replies) : replies[i] # "info"}) <= 1

\* C13: a status write of the store (mark published, mark rejected) takes
\* effect only when the current status of the draft is pending: no step
\* changes the status of a draft that is published or rejected.
C13_StatusWriteOnlyFromPending ==
    [][\A d \in DraftIds :
          (draft_posts[d] # NoRow /\ draft_posts'[d].status # draft_posts[d].status)
          => draft_posts[d].status = "pending_moderation"]_vars

\* C14: two moderators acting on the same draft do not exclude each other.
\* Reject by any moderator sets the status to rejected whatever it was and is
\* answered as done; a publish run with a send that succeeds sets it to
\* published whatever it was and is answered as done: the status is the one
\* of the status write made last.
C14_LastStatusWriteWins ==
    [][/\ \A m \in Moderators : \A d \in DraftIds :
             (draft_posts[d] # NoRow /\ HandlerFree /\ callback_reject(m, d))
             => draft_posts'[d].status = "rejected" /\ replies' = <<"rejected">>
       /\ (lastRun' # NoRun /\ lastRun'.found /\ lastRun'.published_count > 0)
          => /\ draft_posts'[lastRun'.draft_id].status = "published"
             /\ InList("published", replies')]_vars

\* moderator 1 has published a draft that was rejected after moderator 1 had
\* recorded the intent to publish it
C14_Witness ==
    /\ lastRun # NoRun /\ lastRun.found
    /\ lastRun.user_id = 1
    /\ lastRun.status_before = "rejected"
    /\ lastRun.image_to_use = NULL
    /\ draft_posts[lastRun.draft_id].status = "published"

\* C15: an edit message in which no title can be found is rejected: the
\* draft keeps its title, body and hashtags, the moderator is told that no
\* title was found, and the session stays in editing for the same draft.
C15_NoTitleEditRejected ==
    [][\A m \in Moderators : \A text \in EditSamples :
          (/\ HandlerFree
           /\ editing_states[m] # NoId
           /\ parse_title_and_body(parse_hashtags_from_text(text)[1])[1] = <<>>
           /\ message_handler(m, "text", text, TRUE, TRUE))
          => /\ draft_posts' = draft_posts
             /\ editing_states' = editing_states
             /\ replies' = <<"no_title">>]_vars

\* a moderator still editing an existing draft has just been refused an edit
C15_Witness ==
    /\ replies = <<"no_title">>
    /\ \E m \in Moderators :
          /\ editing_states[m] # NoId
          /\ draft_posts[editing_states[m]] # NoRow
          /\ draft_posts[editing_states[m]].title = GenTitle

\* an edit message of a moderator has been applied to a draft by this step
EditApplied(m, text) ==
    /\ HandlerFree
    /\ editing_states[m] # NoId
    /\ message_handler(m, "text", text, TRUE, TRUE)
    /\ replies' = <<"updated", "info">>

\* C16 as stated: the first line of the message, its hashtags removed, is
\* the title, the remaining lines, their hashtags removed, are the body, and
\* the hashtags of the message are its tags.
C16_FirstLineIsTitle ==
    [][\A m \in Moderators : \A text \in EditSamples :
          EditApplied(m, text)
          => LET row == draft_posts'[editing_states[m]]
                 split == SplitLines(text)
             IN  /\ row.title = Strip(RemoveHashtags(split[1]))
                 /\ row.body = Strip(RemoveHashtags(Join(Tail(split), <<"\n">>)))
                 /\ row.hashtags = Join(FindHashtags(text), <<" ">>)]_vars

\* C16 as the code has it: the hashtags are removed from the message, then
\* its blank lines are dropped and the others are stripped of surrounding
\* blanks; the first line left is the title, the others, in order, are the
\* body, and the hashtags of the message, in order, are the tags.
C16_FirstNonBlankLineIsTitle ==
    [][\A m \in Moderators : \A text \in EditSamples :
          EditApplied(m, text)
          => LET row == draft_posts'[editing_states[m]]
                 kept == SelectSeq(SplitLines(RemoveHashtags(text)),
                                   LAMBDA l : \E i \in 1..Len(l) : l[i] \notin WhiteChars)
             IN  /\ kept # <<>>
                 /\ row.title = Strip(kept[1])
                 /\ row.body = Join([i \in 1..(Len(kept) - 1) |-> Strip(kept[i + 1])],
                                    <<"\n">>)
                 /\ row.hashtags = Join(FindHashtags(text), <<" ">>)
                 /\ FindHashtags(row.title) = <<>>
                 /\ FindHashtags(row.body) = <<>>]_vars

\* the message "T / b / x #y #x" has been applied: title T, body of two
\* lines, both tags
C16_Witness ==
    \E d \in DraftIds :
        /\ draft_posts[d] # NoRow
        /\ draft_posts[d].title = <<"T">>
        /\ draft_posts[d].body = <<"b", "\n", "x">>
        /\ draft_posts[d].hashtags = <<"#", "y", " ", "#", "x">>
        /\ replies = <<"updated", "info">>

\* C17: the session entry is cleared when the action completes: after an
\* edit message has been applied the moderator has no editing draft, and
\* after a publish run the moderator has no publish intent.
C17_SessionClearedOnCompletion ==
    [][/\ \A m \in Moderators : \A text \in EditSamples :
             EditApplied(m, text) => editing_states'[m] = NoId
       /\ (lastRun' # NoRun /\ lastRun'.user_id # NoId)
          => publishing_states'[lastRun'.user_id] = NoState]_vars

\* C18: reject sets the status of the draft to rejected in one step, with no
\* confirmation, whatever the status of the draft and whatever session state
\* the moderator has; nothing else of the draft and no session state changes.
C18_RejectInOneStep ==
    [][\A m \in Moderators : \A d \in DraftIds :
          (HandlerFree /\ draft_posts[d] # NoRow /\ callback_reject(m, d))
          => /\ draft_posts'[d] = [draft_posts[d] EXCEPT !.status = "rejected"]
             /\ replies' = <<"rejected">>
             /\ editing_states' = editing_states
             /\ publishing_states' = publishing_states]_vars

\* a draft already published has been rejected by a moderator who is in the
\* middle of an edit or of a publication
C18_Witness ==
    /\ replies = <<"rejected">>
    /\ \E d \in DraftIds :
          /\ draft_posts[d] # NoRow
          /\ draft_posts[d].status = "rejected"
          /\ draft_posts[d].target_chat_id # NULL
    /\ \E m \in Moderators : editing_states[m] # NoId \/ publishing_states[m] # NoState

\* the moderator has picked an image in the image-change flow and the image
\* has been stylized: _handle_select_image got as far as storing it
PickedInChangeFlow(m, d) ==
    /\ HandlerFree
    /\ draft_posts[d] # NoRow
    /\ \E i \in 0..MaxImages, found \in 0..MaxImages :
          /\ handle_select_image(m, d, i, found, TRUE)
          /\ replies' = <<"info", "info">>

\* the same in the publish flow: _handle_select_image_for_publish
PickedInPublishFlow(m, d) ==
    /\ HandlerFree
    /\ draft_posts[d] # NoRow
    /\ \E i \in 0..MaxImages :
          /\ i < draft_posts[d].pexels_images
          /\ handle_select_image_for_publish(m, d, i, TRUE)

\* C19 as stated: picking an image stores the stylized URL as the final
\* image, and a publish run follows exactly when the session of the moderator
\* carries a publish intent; without one nothing is sent.
C19_PublishIffIntent ==
    [][\A m \in Moderators : \A d \in DraftIds :
          (PickedInChangeFlow(m, d) \/ PickedInPublishFlow(m, d))
          => /\ draft_posts'[d].final_image_url = StyledUrl
             /\ (lastRun' # NoRun) <=> (publishing_states[m] # NoState)
             /\ (publishing_states[m] = NoState) => channel_msgs' = channel_msgs]_vars

\* C19 as the code has it: both handlers store the stylized URL.  The handler
\* of the image-change flow never publishes, with or without an intent.  The
\* handler of the publish flow publishes with the stylized image to the
\* channels of the intent if there is one, to the one configured channel if
\* there is no intent and one channel is configured, and otherwise sends
\* nothing.
C19_PublishFlowPublishes ==
    [][\A m \in Moderators : \A d \in DraftIds :
          /\ PickedInChangeFlow(m, d)
             => /\ draft_posts'[d].final_image_url = StyledUrl
                /\ lastRun' = NoRun
                /\ channel_msgs' = channel_msgs
                /\ publishing_states' = publishing_states
          /\ PickedInPublishFlow(m, d)
             => /\ draft_posts'[d].final_image_url = StyledUrl
                /\ IF publishing_states[m] # NoState
                   THEN /\ lastRun' # NoRun
                        /\ lastRun'.target_channels = publishing_states[m].channels
                        /\ lastRun'.image_to_use = StyledUrl
                        /\ publishing_states'[m] = NoState
                   ELSE IF Len(TARGET_CHANNEL_IDS) = 1
                   THEN /\ lastRun' # NoRun
                        /\ lastRun'.target_channels = TARGET_CHANNEL_IDS
                        /\ lastRun'.image_to_use = StyledUrl
                   ELSE /\ lastRun' = NoRun
                        /\ channel_msgs' = channel_msgs]_vars

\* an image picked in the publish flow has been published to the two
\* channels of the moderator's intent
C19_Witness ==
    /\ lastRun # NoRun /\ lastRun.found
    /\ lastRun.user_id = NoId
    /\ lastRun.final_image_url = StyledUrl
    /\ Len(lastRun.target_channels) = 2
    /\ lastRun.published_count = 2
    /\ draft_posts[lastRun.draft_id].status = "published"

\* C20: confirming the channel selection while the accumulated selection is
\* empty is rejected: no publish run starts, nothing is sent to any channel,
\* no draft changes, and the moderator, whose selection is kept, is told to
\* choose at least one channel.
C20_EmptySelectionRejected ==
    [][\A m \in Moderators : \A d \in DraftIds :
          (/\ HandlerFree
           /\ publishing_states[m] # NoState
           /\ publishing_states[m].channels = <<>>
           /\ handle_publish_channels_done(m, d))
          => /\ lastRun' = NoRun
             /\ channel_msgs' = channel_msgs
             /\ draft_posts' = draft_posts
             /\ publishing_states' = publishing_states
             /\ replies' = <<"no_channels">>]_vars

\* a moderator with an empty selection has been refused, for a pending draft
\* that has a final image and would have been published at once
C20_Witness ==
    /\ replies = <<"no_channels">>
    /\ \E m \in Moderators :
          /\ publishing_states[m] # NoState
          /\ publishing_states[m].channels = <<>>
          /\ draft_posts[publishing_states[m].draft_id] # NoRow
          /\ draft_posts[publishing_states[m].draft_id].status = "pending_moderation"
          /\ draft_posts[publishing_states[m].draft_id].final_image_url # NULL

\* C21: toggling a channel twice returns the set of selected channels to what
\* it was: after any toggle step of a moderator, with any selection before it
\* (none, empty, or some channels), a second toggle of the same channel leaves
\* the channels that were selected before the step, and only those.
C21_ToggleTwiceIsIdentity ==
    [][\A m \in Moderators : \A d \in DraftIds : \A c \in ChannelSet :
          (HandlerFree /\ handle_toggle_channel(m, d, c))
          => LET before == IF publishing_states[m] = NoState THEN <<>>
                           ELSE publishing_states[m].channels
                 twice == Toggle(publishing_states'[m].channels, c)
             IN  /\ {twice[i] : i \in 1..Len(twice)} = {before[i] : i \in 1..Len(before)}
                 /\ Len(twice) = Len(before)
                 /\ publishing_states'[m].channels # before]_vars

\* a channel was toggled off and on again while another was selected: the
\* selection holds both channels, the toggled one now last
C21_Witness ==
    \E m \in Moderators :
        /\ publishing_states[m] # NoState
        /\ publishing_states[m].channels = <<"B", "A">>

\* C22: an action that names a draft that does not exist is discarded: the
\* moderator is told so, the store and the session state of every moderator
\* stay as they were, and nothing is sent to a channel.
C22_NotFoundDiscarded ==
    [][\A m \in Moderators : \A d \in DraftIds :
          (/\ HandlerFree
           /\ get_draft_post(d) = NoRow
           /\ \/ callback_approve(m, d)
              \/ callback_edit(m, d)
              \/ \E c \in ChannelSet : handle_channel_selection(m, d, c)
              \/ handle_publish_channels_done(m, d)
              \/ handle_publish_no_photo(m, d))
          => /\ draft_posts' = draft_posts
             /\ editing_states' = editing_states
             /\ publishing_states' = publishing_states
             /\ channel_msgs' = channel_msgs
             /\ replies' = <<"failed">>]_vars

\* C23: inserting a source post whose (channel_id, message_id) is already in
\* the table returns None, without an error, and changes no row; the table
\* never holds two rows with one pair.
C23_DuplicateInsertIgnored ==
    [][/\ \A c \in SourceChannels : \A k \in DraftIds : \A text \in SourceTexts :
             (RowsWithKey(c, k) # {} /\ add_source_post(c, k, text))
             => /\ insert_result'.returned = NoId
                /\ source_keys' = source_keys
                /\ source_posts' = source_posts
       /\ \A c \in SourceChannels : \A k \in DraftIds :
             Cardinality({id \in DraftIds : /\ source_keys'[id] # NoKey
                                           /\ source_keys'[id].channel_id = c
                                           /\ source_keys'[id].message_id = k}) <= 1]_vars

\* a second insert of a pair, with another text, has returned None; the row
\* of the pair, already processed, keeps its text
C23_Witness ==
    /\ insert_result # NoInsert
    /\ insert_result.returned = NoId
    /\ \E id \in RowsWithKey(insert_result.channel_id, insert_result.message_id) :
          /\ source_keys[id].text_original # insert_result.text_original
          /\ source_posts[id] = "processed"

JustPicked(d) ==
    /\ draft_posts[d] # NoRow
    /\ draft_posts[d].final_image_url = StyledUrl
    /\ \/ lastRun = NoRun /\ replies = <<"info", "info">>
       \/ lastRun # NoRun /\ lastRun.user_id = NoId /\ lastRun.draft_id = d

\* C25: with the one destination channel A, a pending draft without image,
\* nothing sent yet: after a pick of an image for the draft has succeeded and
\* the moderator then approves the draft, with the send of the approval
\* succeeding, exactly one message in all has been sent to A, the draft is
\* published, and its recorded target is A with the id of that message.
C25_PickThenApproveSendsOnce ==
    [][\A m \in Moderators : \A d \in DraftIds :
          (/\ HandlerFree
           /\ JustPicked(d)
           /\ callback_approve(m, d)
           /\ lastRun' # NoRun /\ lastRun'.published_count = 1)
          => /\ channel_msgs'["A"] = 1
             /\ draft_posts'[d].status = "published"
             /\ draft_posts'[d].target_chat_id = "A"
             /\ draft_posts'[d].target_message_id = 1]_vars

\* C26: once a tick has attempted the delivery of a draft to every moderator
\* of MODERATOR_IDS, whatever the outcomes of the attempts, the draft counts
\* as delivered: a tick that starts afterwards skips it.
C26_AttemptedCountsAsDelivered ==
    [][\A t \in TickTasks :
          (/\ ticks[t].pc = "sending"
           /\ ticks[t].idx = Len(MODERATOR_IDS)
           /\ TickSendStep(t, TRUE) \/ TickSendStep(t, FALSE))
          => SkipDrafts(<<Head(ticks[t].queue)>>, sent_drafts') = <<>>]_vars

\* C27: across any sequence of process_posts runs no VK post is sent to
\* Telegram more than once; a run sends only posts whose id is greater than
\* the persisted last_post_id, and a run that finds the state uninitialized
\* sends nothing.
C27_NoVkPostSentTwice ==
    /\ \A post_id \in VkPostIds : vk_sent[post_id] <= 1
    /\ \A post_id \in vk_run.sent : post_id > vk_run.before.last_post_id
    /\ ~vk_run.before.initialized => vk_run.sent = {}

\* C28: a publish run started by a publish-step action on draft d (no photo,
\* source photo, pick image, confirm channels) of a moderator who has a
\* publish intent for an existing draft, and that delivers to a channel, uses
\* the channels of an intent stored for d: the draft id of the action equals
\* the draft id of the intent.
C28_PublishUsesOwnIntent ==
    [][\A m \in Moderators, d \in DraftIds :
          (/\ publishing_states[m] # NoState
           /\ get_draft_post(publishing_states[m].draft_id) # NoRow
           /\ \/ handle_publish_no_photo(m, d)
              \/ handle_publish_source_photo(m, d, TRUE)
              \/ \E i \in 0..MaxImages : handle_select_image_for_publish(m, d, i, TRUE)
              \/ handle_publish_channels_done(m, d)
           /\ lastRun' # NoRun /\ lastRun'.published_count > 0)
          => publishing_states[m].draft_id = d]_vars

\* C29: while the periodic tick and an on-demand tick are both inside the
\* delivery of the same draft, no moderator has received the draft from both
\* of them.
C29_OverlappingTicksDeliverOnce ==
    (/\ ticks["periodic"].pc = "sending" /\ ticks["ondemand"].pc = "sending"
     /\ Head(ticks["periodic"].queue) = Head(ticks["ondemand"].queue))
    => ticks["periodic"].sent_to \cap ticks["ondemand"].sent_to = {}

\* C30: the moderator is sent the 'post published' acknowledgement for a
\* publish run on an existing draft only if the run delivered to at least one
\* channel and the status of the draft is published afterwards.
C30_PublishedAckOnlyAfterDelivery ==
    (InList("published", replies) /\ lastRun # NoRun /\ lastRun.found)
    => /\ lastRun.published_count > 0
       /\ draft_posts[lastRun.draft_id].status = "published"

\* C31: a tick sends a draft only to moderators that are not yet in the
\* draft's notified set, and the notified set of a draft never loses a member.
C31_OnlyMissingModeratorsNotified ==
    [][/\ \A d \in DraftIds : \A m \in Moderators :
             notified'[d][m] > notified[d][m] => m \notin sent_drafts[d]
       /\ \A d \in DraftIds : sent_drafts[d] \subseteq sent_drafts'[d]]_vars

\* C32: when the oldest pending draft is one a tick skips (delivered to all
\* moderators already, or older than 168 hours), a younger pending draft is
\* still delivered, on that tick or a later one, while the skipped draft stays
\* pending.
C32_SkippedDraftDoesNotBlock ==
    \A d \in DraftIds : \A e \in DraftIds : \A m \in 1..NumModerators :
        (/\ d < e
         /\ draft_posts[d] # NoRow /\ draft_posts[d].status = "pending_moderation"
         /\ (sent_drafts[d] = Moderators \/ draft_posts[d].old)
         /\ draft_posts[e] # NoRow /\ draft_posts[e].status = "pending_moderation"
         /\ ~draft_posts[e].old)
        ~> \/ notified[e][m] > 0
           \/ draft_posts[d].status # "pending_moderation"
           \/ draft_posts[e].status # "pending_moderation"

\* the pending drafts created before draft d
OlderPending(d) ==
    {e \in DraftIds : /\ e < d /\ draft_posts[e] # NoRow
                      /\ draft_posts[e].status = "pending_moderation"}

\* C33: a tick pushes at most MAX_DRAFTS_PER_CHECK (1) drafts, and the drafts
\* it takes are the oldest pending drafts by creation time: a tick that begins
\* takes only pending drafts with fewer than MAX_DRAFTS_PER_CHECK older pending
\* drafts, and only a draft a tick took is sent to a moderator.
C33_TickTakesOldestWithinCap ==
    [][/\ \A t \in TickTasks :
             /\ Len(ticks'[t].queue) <= MAX_DRAFTS_PER_CHECK
             /\ (ticks[t].pc = "idle" /\ ticks'[t].pc = "sending")
                => \A i \in 1..Len(ticks'[t].queue) :
                      LET d == ticks'[t].queue[i]
                      IN  /\ draft_posts[d] # NoRow
                          /\ draft_posts[d].status = "pending_moderation"
                          /\ Cardinality(OlderPending(d)) < MAX_DRAFTS_PER_CHECK
       /\ \A d \in DraftIds : \A m \in Moderators :
             notified'[d][m] > notified[d][m]
             => \E t \in TickTasks : ticks[t].pc = "sending" /\ Head(ticks[t].queue) = d]_vars

\* a tick is sending the oldest pending draft while a younger draft is pending
C33_Witness ==
    \E t \in TickTasks :
        /\ ticks[t].pc = "sending"
        /\ Len(get_pending_draft_posts) >= 2
        /\ Head(ticks[t].queue) = Head(get_pending_draft_posts)
        /\ \E m \in Moderators : notified[Head(ticks[t].queue)][m] > 0

\* C34: after a publish run a channel counts as succeeded if and only if it
\* has no entry in the error list: the count of succeeded channels plus the
\* count of error entries equals the count of attempted channels.
C34_SucceededPlusFailedIsAttempted ==
    (lastRun # NoRun /\ lastRun.found)
    => lastRun.published_count + Len(lastRun.errors) = Len(lastRun.attempts)

\* C35: within one tick a send that fails does not end the delivery of the
\* draft: whatever the outcome of the send to a moderator that is not the last
\* of MODERATOR_IDS, the tick goes on to the send of the same draft to the
\* next moderator, so every configured moderator is attempted.
C35_EveryModeratorAttempted ==
    [][\A t \in TickTasks :
          (/\ ticks[t].pc = "sending"
           /\ ticks[t].idx < Len(MODERATOR_IDS)
           /\ ticks'[t] # ticks[t])
          => /\ ticks'[t].pc = "sending"
             /\ ticks'[t].queue = ticks[t].queue
             /\ ticks'[t].idx = ticks[t].idx + 1]_vars

\* the send to the first moderator failed and the tick is in the send to the
\* second
C35_Witness ==
    \E t \in TickTasks :
        /\ ticks[t].pc = "sending"
        /\ ticks[t].idx = 2
        /\ MODERATOR_IDS[1] \notin ticks[t].sent_to

\* the draft a tick that begins now hands to _send_draft_to_moderators
NextToSend == SkipDrafts(Take(get_pending_draft_posts, MAX_DRAFTS_PER_CHECK), sent_drafts)

\* C36: a free-form message of a moderator who has no editing draft and no
\* publish intent runs a delivery tick (the oldest pending draft, unless the
\* tick skips it, is sent to the moderators) and neither the message nor the
\* sends of the tick change a draft or a session of any moderator.
C36_IdleMessageRunsTick ==
    [][/\ \A m \in Moderators : \A kind \in {"text", "photo"} :
             (/\ editing_states[m] = NoId /\ publishing_states[m] = NoState
              /\ HandlerFree
              /\ message_handler(m, kind, <<>>, TRUE, TRUE))
             => /\ NextToSend # <<>>
                   => /\ ticks'["ondemand"].pc = "sending"
                      /\ Head(ticks'["ondemand"].queue) = Head(NextToSend)
                /\ draft_posts' = draft_posts
                /\ editing_states' = editing_states
                /\ publishing_states' = publishing_states
       /\ \A ok \in BOOLEAN :
             TickSendStep("ondemand", ok)
             => /\ draft_posts' = draft_posts
                /\ editing_states' = editing_states
                /\ publishing_states' = publishing_states]_vars

\* the tick started by a free-form message has delivered a draft to one
\* moderator while the other moderator has a session
C36_Witness ==
    /\ ticks["ondemand"].pc = "sending"
    /\ ticks["ondemand"].sent_to # {}
    /\ \E m \in Moderators : editing_states[m] # NoId \/ publishing_states[m] # NoState

\* C37: a failure inside a tick or inside the action of one moderator does
\* not stop the delivery scheduler and does not touch the other moderators: a
\* tick that raised and a send of a tick that failed change no session, a
\* step changes the session entries of one moderator at most, and the
\* periodic loop is ready for its next tick again and again.
C37_FailureIsContained ==
    /\ [][/\ (TickRaises \/ \E t \in TickTasks : TickSendStep(t, FALSE))
             => /\ editing_states' = editing_states
                /\ publishing_states' = publishing_states
          /\ \A m \in Moderators : \A n \in Moderators \ {m} :
                (editing_states'[m] # editing_states[m]
                 \/ publishing_states'[m] # publishing_states[m])
                => /\ editing_states'[n] = editing_states[n]
                   /\ publishing_states'[n] = publishing_states[n]]_vars
    /\ []<>(ticks["periodic"].pc = "idle")

\* the publish run started by one moderator failed on its channel while the
\* other moderator has a session and the periodic tick is in a send after a
\* send that failed
C37_Witness ==
    /\ lastRun # NoRun /\ lastRun.found /\ lastRun.published_count = 0
    /\ lastRun.target_channels # <<>>
    /\ \E n \in Moderators :
          /\ n # lastRun.user_id
          /\ (editing_states[n] # NoId \/ publishing_states[n] # NoState)
    /\ ticks["periodic"].pc = "sending"
    /\ ticks["periodic"].idx = 2
    /\ ticks["periodic"].sent_to = {}

\* C38: a new post whose send failed in a run of process_posts stays above
\* the persisted last_post_id, so a later run attempts it again, also when a
\* newer post of the same run was sent.
C38_FailedPostStaysEligible ==
    \A post_id \in vk_run.posts :
        (/\ vk_run.before.initialized
         /\ post_id > vk_run.before.last_post_id
         /\ post_id \notin vk_run.sent
         /\ \E newer \in vk_run.sent : newer > post_id)
        => vk_state.last_post_id < post_id

\* C39: across the iterations of the generation worker each source post
\* yields at most one draft: a processed post has one draft, a post that is
\* new has none.
C39_OneDraftPerSourcePost ==
    \A p \in DraftIds :
        /\ Cardinality(DraftsOf(p)) <= 1
        /\ source_posts[p] = "processed" => Cardinality(DraftsOf(p)) = 1
        /\ source_posts[p] = "new" => DraftsOf(p) = {}

====
